---- MODULE Spec2Model ----
(***************************************************************************)
(* A model of the <WixLogin /> component (src/src/WixLogin.tsx), the       *)
(* useWixLogin accessor (src/src/useWixLogin.ts) and the capability check  *)
(* (src/src/isOAuthClient.ts).                                             *)
(*                                                                         *)
(* One action stands for one handler of the component together with the    *)
(* re-render and the useEffect on [isModalOpen] that React runs after the  *)
(* handler changed isModalOpen.  The optional props are inputs: the parent *)
(* may re-render the component with new ones between any two events        *)
(* (callbackUrl is a useMemo on [customCallbackUrl]), so each handler reads *)
(* the props of the latest render as an input.  The client is the one the  *)
(* instance was mounted with, which its Linking listener captured.  A      *)
(* thrown error is recorded in ev; what the host application does with it  *)
(* is outside the repository, so the state the handler left behind is kept *)
(* and Unmount stays possible.                                             *)
(***************************************************************************)
EXTENDS Integers, Sequences, FiniteSets, TLC

\* ---------------------------------------------------------------- bounds
MaxMounts == 2
MaxSessions == 2
MaxExchanges == 2

\* ------------------------------------------------------- values and inputs
Ops == {"generateOAuthData", "getAuthUrl", "parseFromUrl", "getMemberTokens"}

\* A client is the set of operation names found on client.auth.
OAuthClient == Ops
Clients == {OAuthClient} \cup {OAuthClient \ {o} : o \in Ops}

AppScheme == "myapp"
DEFAULT_CALLBACK_URL == "auth-callback"
Undefined == "undefined"
CustomCallbackUrls == {Undefined, "custom-callback"}

Codes == {"ABC"}
States == {"XYZ"}

\* The HTTP error statuses the embedded browser may report.
HttpStatuses == {400, 404}

NoError == "none"
EmptyUrl == <<>>
NoData == [url |-> <<>>, id |-> 0]

\* ------------------------------------------------------ pure functions
\* isOAuthClient(wix): all four operations are 'in wix.auth'.
IsOAuthClient(wix) ==
    /\ "generateOAuthData" \in wix
    /\ "getAuthUrl" \in wix
    /\ "parseFromUrl" \in wix
    /\ "getMemberTokens" \in wix

\* The isOAuthClient of the second source file of that name: the four
\* operations are looked up 'in wix', the client object itself.
IsOAuthClient_part_001(wix) ==
    /\ "generateOAuthData" \in wix
    /\ "getAuthUrl" \in wix
    /\ "parseFromUrl" \in wix
    /\ "getMemberTokens" \in wix

\* Linking.createURL(path): the app's scheme combined with the path.
CreateURL(path) == <<AppScheme, path>>

\* useMemo(() => Linking.createURL(customCallbackUrl ?? DEFAULT_CALLBACK_URL))
CallbackUrlOf(customCallbackUrl) ==
    CreateURL(IF customCallbackUrl = Undefined THEN DEFAULT_CALLBACK_URL
              ELSE customCallbackUrl)

\* client.auth.generateOAuthData(callbackUrl): fresh opaque data per call,
\* carrying the redirect URI; n is the number of the open that asked for it.
GenerateOAuthData(callbackUrl, n) == [url |-> callbackUrl, id |-> n]

\* The authUrl that client.auth.getAuthUrl(authData) resolves to.
GetAuthUrl(authData) == <<"authorize", authData.url, authData.id>>

\* A deep link <scheme>://<path>?code=..&state=..
DeepLinkUrl(path, code, state) == <<AppScheme, path, code, state>>
DeepLinkUrls ==
    {DeepLinkUrl(DEFAULT_CALLBACK_URL, c, s) : c \in Codes, s \in States}

\* client.auth.parseFromUrl(url)
ParseFromUrl(url) == [code |-> url[3], state |-> url[4]]

\* The tokens client.auth.getMemberTokens(code, state, authData) resolves to.
GetMemberTokens(code, state, authData) ==
    [code |-> code, state |-> state, data |-> authData]

\* ---------------------------------------------------------------- state
VARIABLES
    isMounted,     \* the instances whose isMounted.current is true
    handle,        \* global.__OPEN_WIX_LOGIN_MODAL: id of the owning instance, 0 if absent
    listeners,     \* Linking 'url' listeners: listeners[i] is the client captured by instance i
    isModalOpen,   \* useState(false)
    authUrl,       \* useState('')
    oAuthData,     \* useRef<OauthData | null>(null)
    crypto,        \* globalThis.crypto
    session,       \* number of opens of the modal so far
    pendingAuth,   \* getAuthUrl promises not settled yet
    pendingTokens, \* getMemberTokens promises not settled yet
    completions,   \* completions[s]: how often onLoginComplete got tokens of session s
    exchangeLog,   \* the sessions whose authorization data getMemberTokens was called with
    cancelLog,     \* the sessions that ended by a press on the cancel button
    canceledLog,   \* the sessions in which onLoginCanceled was called
    ev,            \* what the last step did
    wix,           \* the client object handed to isOAuthClient
    returned,      \* what the last call of isOAuthClient returned
    memoDeps,      \* useMemo of callbackUrl: the customCallbackUrl it was computed for
    memoUrl        \* useMemo of callbackUrl: the value it holds

vars == <<isMounted, handle, listeners, isModalOpen, authUrl, oAuthData, crypto,
          session, pendingAuth, pendingTokens, completions, exchangeLog,
          cancelLog, canceledLog, ev, wix, returned, memoDeps, memoUrl>>

mountState == <<isMounted, handle, listeners>>
modalState == <<isModalOpen, authUrl, oAuthData, crypto, session, pendingAuth>>
logs == <<completions, exchangeLog, cancelLog, canceledLog>>
helperState == <<wix, returned, memoDeps, memoUrl>>

\* WixLoginProps; hasOnLoginCanceled tells whether onLoginCanceled is supplied.
PropsSet ==
    [client : Clients,
     allowUserToCancelLogin : BOOLEAN,
     hasOnLoginCanceled : BOOLEAN,
     customCallbackUrl : CustomCallbackUrls]

NoProps ==
    [client |-> OAuthClient, allowUserToCancelLogin |-> FALSE,
     hasOnLoginCanceled |-> FALSE, customCallbackUrl |-> Undefined]

\* The record of a step: the operation, the error it threw, the error the
\* effect on [isModalOpen] threw, the callback URL an error message carries,
\* how often onLoginCanceled was called, the tokens onLoginComplete was called
\* with, the client calls issued, each with the client it went through,
\* whether a settled promise belonged to a session that is no longer active,
\* whether the deep link behind a completion arrived while the modal was
\* open, the URL of a deep link, and what globalThis.crypto was when
\* generateOAuthData was called.
Event(op) ==
    [op |-> op, error |-> NoError, effectError |-> NoError,
     errUrl |-> EmptyUrl, canceled |-> 0, completed |-> {}, calls |-> {},
     stale |-> FALSE, deliveredOpen |-> TRUE, url |-> EmptyUrl,
     cryptoAtGenerate |-> "not called"]

\* The mounted instance, the one the events of the user interface go to;
\* 0 if there is none.
live == IF isMounted = {} THEN 0 ELSE CHOOSE i \in isMounted : TRUE

\* The client prop of the mounted instance.
client == IF live = 0 THEN OAuthClient ELSE listeners[live]

\* p can be the props of a render of the mounted instance.
IsRender(p) == p.client = client

\* A client object as isOAuthClient is handed it: the operation names found
\* on the object itself and those found on its auth member, the object the
\* component calls them on.
WixClients == [own : SUBSET Ops, auth : SUBSET Ops]
NoReturn == [of |-> "none", value |-> FALSE]
NotRendered == "not rendered"

Init ==
    /\ wix = [own |-> {}, auth |-> OAuthClient]
    /\ returned = NoReturn
    /\ memoDeps = NotRendered
    /\ memoUrl = EmptyUrl
    /\ isMounted = {}
    /\ handle = 0
    /\ listeners = <<>>
    /\ isModalOpen = FALSE
    /\ authUrl = EmptyUrl
    /\ oAuthData = NoData
    /\ crypto = "native"
    /\ session = 0
    /\ pendingAuth = {}
    /\ pendingTokens = {}
    /\ completions = [s \in 1..MaxSessions |-> 0]
    /\ exchangeLog = {}
    /\ cancelLog = {}
    /\ canceledLog = {}
    /\ ev = Event("init")

\* ------------------------------------------- the effect on [isModalOpen]
\* The effect with its capability check left out.
ModalEffectUnchecked(open, n, p, e) ==
    IF open
    THEN LET authData == GenerateOAuthData(CallbackUrlOf(p.customCallbackUrl), n)
         IN /\ crypto' = "expo-crypto"
            /\ pendingAuth' = pendingAuth \cup {[inst |-> live, data |-> authData]}
            /\ oAuthData' = authData
            /\ ev' = [e EXCEPT !.cryptoAtGenerate = "expo-crypto",
                               !.calls = @ \cup
                          {<<"generateOAuthData", p.client>>,
                           <<"getAuthUrl", p.client>>}]
            /\ UNCHANGED authUrl
    ELSE /\ authUrl' = EmptyUrl
         /\ ev' = e
         /\ UNCHANGED <<oAuthData, crypto, pendingAuth>>

\* The effect with 'oAuthData.current ??= authData' for its last statement:
\* authorization data already held is kept.
ModalEffectKeepsData(open, n, p, e) ==
    IF ~IsOAuthClient(p.client)
    THEN /\ ev' = [e EXCEPT !.effectError = "ClientIsNotOAuthClientError"]
         /\ UNCHANGED <<authUrl, oAuthData, crypto, pendingAuth>>
    ELSE IF open
    THEN LET authData == GenerateOAuthData(CallbackUrlOf(p.customCallbackUrl), n)
         IN /\ crypto' = "expo-crypto"
            /\ pendingAuth' = pendingAuth \cup {[inst |-> live, data |-> authData]}
            /\ oAuthData' = IF oAuthData = NoData THEN authData ELSE oAuthData
            /\ ev' = [e EXCEPT !.cryptoAtGenerate = "expo-crypto",
                               !.calls = @ \cup
                          {<<"generateOAuthData", p.client>>,
                           <<"getAuthUrl", p.client>>}]
            /\ UNCHANGED authUrl
    ELSE /\ authUrl' = EmptyUrl
         /\ ev' = e
         /\ UNCHANGED <<oAuthData, crypto, pendingAuth>>

\* The effect with 'globalThis.crypto = Crypto' moved behind the call of
\* generateOAuthData.
ModalEffectPolyfillLate(open, n, p, e) ==
    IF ~IsOAuthClient(p.client)
    THEN /\ ev' = [e EXCEPT !.effectError = "ClientIsNotOAuthClientError"]
         /\ UNCHANGED <<authUrl, oAuthData, crypto, pendingAuth>>
    ELSE IF open
    THEN LET authData == GenerateOAuthData(CallbackUrlOf(p.customCallbackUrl), n)
         IN /\ crypto' = "expo-crypto"
            /\ pendingAuth' = pendingAuth \cup {[inst |-> live, data |-> authData]}
            /\ oAuthData' = authData
            /\ ev' = [e EXCEPT !.cryptoAtGenerate = crypto,
                               !.calls = @ \cup
                          {<<"generateOAuthData", p.client>>,
                           <<"getAuthUrl", p.client>>}]
            /\ UNCHANGED authUrl
    ELSE /\ authUrl' = EmptyUrl
         /\ ev' = e
         /\ UNCHANGED <<oAuthData, crypto, pendingAuth>>

\* useEffect(() => {...}, [isModalOpen]) as run for the live instance after a
\* render with props p in which isModalOpen has the value open; n is the
\* number of this open and e the step's record.
ModalEffect(open, n, p, e) ==
    IF ~IsOAuthClient(p.client)
    THEN /\ ev' = [e EXCEPT !.effectError = "ClientIsNotOAuthClientError"]
         /\ UNCHANGED <<authUrl, oAuthData, crypto, pendingAuth>>
    ELSE IF open
    THEN LET authData == GenerateOAuthData(CallbackUrlOf(p.customCallbackUrl), n)
         IN /\ crypto' = "expo-crypto"
            /\ pendingAuth' = pendingAuth \cup {[inst |-> live, data |-> authData]}
            /\ oAuthData' = authData
            /\ ev' = [e EXCEPT !.cryptoAtGenerate = "expo-crypto",
                               !.calls = @ \cup
                          {<<"generateOAuthData", p.client>>,
                           <<"getAuthUrl", p.client>>}]
            /\ UNCHANGED authUrl
    ELSE /\ authUrl' = EmptyUrl
         /\ ev' = e
         /\ UNCHANGED <<oAuthData, crypto, pendingAuth>>

\* setIsModalOpen with the effect run after every call, as with an effect
\* that has no dependency list.
SetIsModalOpenNoDeps(open, p, e) ==
    /\ isModalOpen' = open
    /\ session' = IF open THEN session + 1 ELSE session
    /\ ModalEffect(open, session + 1, p, e)

\* setIsModalOpen(open) of the live instance, the re-render and the effect.
\* Setting the value the state already has re-renders nothing.
SetIsModalOpen(open, p, e) ==
    IF open = isModalOpen
    THEN /\ ev' = e
         /\ UNCHANGED modalState
    ELSE /\ isModalOpen' = open
         /\ session' = IF open THEN session + 1 ELSE session
         /\ ModalEffect(open, session + 1, p, e)

\* ------------------------------------------------------------ mounting
\* The mount effect of a new instance rendered with props p, followed (when
\* it did not throw) by the first run of the effect on [isModalOpen], which
\* finds the modal closed.
Mount(p) ==
    /\ handle # 0 \/ Len(listeners) < MaxMounts
    /\ IF handle # 0
       THEN /\ ev' = [Event("mount") EXCEPT !.error = "TooManyComponentsError"]
            /\ UNCHANGED <<mountState, isModalOpen, authUrl, oAuthData>>
       ELSE /\ listeners' = Append(listeners, p.client)
            /\ handle' = Len(listeners) + 1
            /\ isMounted' = isMounted \cup {Len(listeners) + 1}
            /\ isModalOpen' = FALSE
            /\ oAuthData' = NoData
            /\ authUrl' = EmptyUrl
            /\ ev' = [Event("mount") EXCEPT
                         !.effectError = IF IsOAuthClient(p.client) THEN NoError
                                         ELSE "ClientIsNotOAuthClientError"]
    /\ UNCHANGED <<crypto, session, pendingAuth, pendingTokens, logs>>
    /\ UNCHANGED helperState

\* The cleanup with 'delete global.__OPEN_WIX_LOGIN_MODAL' left out.
UnmountKeepsHandle ==
    /\ live # 0
    /\ isMounted' = isMounted \ {live}
    /\ isModalOpen' = FALSE
    /\ authUrl' = EmptyUrl
    /\ oAuthData' = NoData
    /\ ev' = Event("unmount")
    /\ UNCHANGED <<handle, listeners, crypto, session, pendingAuth,
                   pendingTokens, logs>>
    /\ UNCHANGED helperState

\* onUnmount: the cleanup of the mount effect.  The Linking listener stays;
\* the state of the instance is gone.
Unmount ==
    /\ live # 0
    /\ handle' = 0
    /\ isMounted' = isMounted \ {live}
    /\ isModalOpen' = FALSE
    /\ authUrl' = EmptyUrl
    /\ oAuthData' = NoData
    /\ ev' = Event("unmount")
    /\ UNCHANGED <<listeners, crypto, session, pendingAuth, pendingTokens, logs>>
    /\ UNCHANGED helperState

\* openModal of instance i: if (isMounted.current) setIsModalOpen(true)
OpenModal(i, p, e) ==
    IF i \in isMounted
    THEN SetIsModalOpen(TRUE, p, e)
    ELSE /\ ev' = e
         /\ UNCHANGED modalState

\* openLoginModal with the else branch that throws left out.
OpenLoginModalNoThrow(p) ==
    /\ IsRender(p)
    /\ (handle \in isMounted /\ ~isModalOpen) => session < MaxSessions
    /\ IF handle # 0
       THEN OpenModal(handle, p, Event("openLoginModal"))
       ELSE /\ ev' = Event("openLoginModal")
            /\ UNCHANGED modalState
    /\ UNCHANGED <<mountState, pendingTokens, logs>>
    /\ UNCHANGED helperState

\* useWixLogin().openLoginModal(); p are the props of the latest render.
OpenLoginModal(p) ==
    /\ IsRender(p)
    /\ (handle \in isMounted /\ ~isModalOpen) => session < MaxSessions
    /\ IF handle # 0
       THEN OpenModal(handle, p, Event("openLoginModal"))
       ELSE /\ ev' = [Event("openLoginModal") EXCEPT
                         !.error = "ComponentNotMountedError"]
            /\ UNCHANGED modalState
    /\ UNCHANGED <<mountState, pendingTokens, logs>>
    /\ UNCHANGED helperState

\* openModal of instance i called through a reference to
\* global.__OPEN_WIX_LOGIN_MODAL that was taken before the instance unmounted.
OpenRetained(i) ==
    /\ i \in 1..Len(listeners)
    /\ i \notin isMounted
    /\ OpenModal(i, NoProps, Event("openModal"))
    /\ UNCHANGED <<mountState, pendingTokens, logs>>
    /\ UNCHANGED helperState

\* ----------------------------------------------------------- deep links
\* The session a continuation of instance i with authorization data d belongs
\* to is no longer the active one.
Stale(i, d) == ~(i \in isMounted /\ isModalOpen /\ d.id = session)

\* The token exchanges the model follows: those in flight and those that
\* completed.  FreeSlot tells two exchanges of the same arguments apart.
RECURSIVE Sum(_, _)
Sum(f, n) == IF n = 0 THEN 0 ELSE f[n] + Sum(f, n - 1)
Exchanges == Cardinality(pendingTokens) + Sum(completions, MaxSessions)
FreeSlot == CHOOSE n \in 1..MaxExchanges : \A q \in pendingTokens : q.n # n

\* onLoginCallback(withUrl) of instance i passes its two guards.
PassesGuards(i) ==
    /\ IsOAuthClient(listeners[i])
    /\ i \in isMounted
    /\ oAuthData # NoData

\* A 'url' event of Linking: every listener ever added runs onLoginCallback
\* up to its await.
DeepLink(withUrl) ==
    /\ Len(listeners) > 0
    /\ LET thrown == \E i \in 1..Len(listeners) : ~IsOAuthClient(listeners[i])
           e == [Event("deepLink") EXCEPT
                    !.url = withUrl,
                    !.error = IF thrown THEN "ClientIsNotOAuthClientError"
                              ELSE NoError]
           parsed == ParseFromUrl(withUrl)
       IN IF live # 0 /\ PassesGuards(live)
          THEN /\ Exchanges < MaxExchanges
               /\ pendingTokens' = pendingTokens \cup
                     {[inst |-> live, code |-> parsed.code, state |-> parsed.state,
                       data |-> oAuthData, n |-> FreeSlot,
                       deliveredOpen |-> isModalOpen]}
               /\ exchangeLog' = exchangeLog \cup {oAuthData.id}
               /\ ev' = [e EXCEPT !.calls = {<<"parseFromUrl", listeners[live]>>,
                                              <<"getMemberTokens", listeners[live]>>}]
          ELSE /\ ev' = e
               /\ UNCHANGED <<pendingTokens, exchangeLog>>
    /\ UNCHANGED <<mountState, modalState, completions, cancelLog, canceledLog>>
    /\ UNCHANGED helperState

\* getMemberTokens resolved: onLoginComplete(tokens); setIsModalOpen(false).
\* p are the props of the latest render of the live instance.
ResolveTokens(p) ==
    /\ IsRender(p)
    /\ \E q \in pendingTokens :
          /\ pendingTokens' = pendingTokens \ {q}
          /\ completions' = [completions EXCEPT ![q.data.id] = @ + 1]
          /\ LET e == [Event("tokensResolved") EXCEPT
                          !.stale = Stale(q.inst, q.data),
                          !.deliveredOpen = q.deliveredOpen,
                          !.completed = {GetMemberTokens(q.code, q.state, q.data)}]
             IN IF q.inst \in isMounted
                THEN SetIsModalOpen(FALSE, p, e)
                ELSE /\ ev' = e
                     /\ UNCHANGED modalState
    /\ UNCHANGED <<mountState, exchangeLog, cancelLog, canceledLog>>
    /\ UNCHANGED helperState

\* A rejection handled as terminal for the login attempt: the modal closes.
RejectTokensCloses ==
    /\ \E q \in pendingTokens : pendingTokens' = pendingTokens \ {q}
    /\ ev' = [Event("tokensRejected") EXCEPT !.error = "TokenExchangeError"]
    /\ isModalOpen' = FALSE
    /\ authUrl' = EmptyUrl
    /\ UNCHANGED <<mountState, oAuthData, crypto, session, pendingAuth, logs>>
    /\ UNCHANGED helperState

\* getMemberTokens rejected: the async function ends at the await.
RejectTokens ==
    /\ \E q \in pendingTokens : pendingTokens' = pendingTokens \ {q}
    /\ ev' = [Event("tokensRejected") EXCEPT !.error = "TokenExchangeError"]
    /\ UNCHANGED <<mountState, modalState, logs>>
    /\ UNCHANGED helperState

\* getAuthUrl resolved: setAuthUrl(res.authUrl).  A state update of an
\* instance that has unmounted is dropped by React.
ResolveAuthUrl ==
    /\ \E q \in pendingAuth :
          /\ pendingAuth' = pendingAuth \ {q}
          /\ authUrl' = IF q.inst \in isMounted THEN GetAuthUrl(q.data)
                        ELSE authUrl
          /\ ev' = [Event("authUrlResolved") EXCEPT
                       !.stale = Stale(q.inst, q.data)]
    /\ UNCHANGED <<mountState, isModalOpen, oAuthData, crypto, session,
                   pendingTokens, logs>>
    /\ UNCHANGED helperState

\* ------------------------------------------------------ embedded browser
\* <Modal visible={isModalOpen}> {authUrl && renderWebview()}
WebviewRendered == live # 0 /\ isModalOpen /\ authUrl # EmptyUrl

\* {!authUrl && renderLoader()}
LoaderRendered == live # 0 /\ isModalOpen /\ authUrl = EmptyUrl

\* onHttpError of the WebView rendered with props p
HttpError(statusCode, p) ==
    /\ WebviewRendered
    /\ IsRender(p)
    /\ IF statusCode = 400
       THEN SetIsModalOpen(FALSE, p,
                [Event("httpError") EXCEPT
                    !.error = "UnauthorizedCallbackUrl",
                    !.errUrl = CallbackUrlOf(p.customCallbackUrl)])
       ELSE /\ ev' = Event("httpError")
            /\ UNCHANGED modalState
    /\ UNCHANGED <<mountState, pendingTokens, logs>>
    /\ UNCHANGED helperState

\* onPress of the cancel TouchableOpacity rendered with props p
PressCancel(p) ==
    /\ WebviewRendered
    /\ IsRender(p)
    /\ p.allowUserToCancelLogin
    /\ cancelLog' = cancelLog \cup {session}
    /\ canceledLog' = IF p.hasOnLoginCanceled THEN canceledLog \cup {session}
                      ELSE canceledLog
    /\ SetIsModalOpen(FALSE, p,
           [Event("cancel") EXCEPT
               !.canceled = IF p.hasOnLoginCanceled THEN 1 ELSE 0])
    /\ UNCHANGED <<mountState, pendingTokens, completions, exchangeLog>>
    /\ UNCHANGED helperState

\* Each handler is offered the props it reads, the others left out.
ClientProps == {[NoProps EXCEPT !.client = c] : c \in Clients}
UrlProps ==
    {[p EXCEPT !.customCallbackUrl = u] : p \in ClientProps, u \in CustomCallbackUrls}
CancelProps ==
    {[p EXCEPT !.allowUserToCancelLogin = a, !.hasOnLoginCanceled = h] :
        p \in ClientProps, a \in BOOLEAN, h \in BOOLEAN}

Next ==
    \/ \E p \in ClientProps : Mount(p)
    \/ Unmount
    \/ \E p \in UrlProps : OpenLoginModal(p)
    \/ \E i \in 1..MaxMounts : OpenRetained(i)
    \/ \E u \in DeepLinkUrls : DeepLink(u)
    \/ \E p \in ClientProps : ResolveTokens(p)
    \/ RejectTokens
    \/ ResolveAuthUrl
    \/ \E c \in HttpStatuses, p \in UrlProps : HttpError(c, p)
    \/ \E p \in CancelProps : PressCancel(p)

Spec == Init /\ [][Next]_vars

\* ------------------------------------- the helpers taken on their own
componentState == <<mountState, modalState, pendingTokens, logs, ev>>

\* Any client object, and a component that has not rendered yet.
InitHelpers ==
    /\ wix \in WixClients
    /\ returned = NoReturn
    /\ memoDeps = NotRendered
    /\ memoUrl = EmptyUrl
    /\ isMounted = {}
    /\ handle = 0
    /\ listeners = <<>>
    /\ isModalOpen = FALSE
    /\ authUrl = EmptyUrl
    /\ oAuthData = NoData
    /\ crypto = "native"
    /\ session = 0
    /\ pendingAuth = {}
    /\ pendingTokens = {}
    /\ completions = [s \in 1..MaxSessions |-> 0]
    /\ exchangeLog = {}
    /\ cancelLog = {}
    /\ canceledLog = {}
    /\ ev = Event("init")

\* isOAuthClient(wix) of src/src/isOAuthClient.ts, the one WixLogin.tsx
\* imports: it reads wix.auth and returns.
CallIsOAuthClient ==
    /\ returned' = [of |-> "isOAuthClient", value |-> IsOAuthClient(wix.auth)]
    /\ UNCHANGED <<wix, memoDeps, memoUrl, componentState>>

\* isOAuthClient(wix) of the second source file: it reads wix and returns.
CallIsOAuthClient_part_001 ==
    /\ returned' = [of |-> "isOAuthClient_part_001",
                    value |-> IsOAuthClient_part_001(wix.own)]
    /\ UNCHANGED <<wix, memoDeps, memoUrl, componentState>>

\* A render with the deps of the useMemo taken to be [] : the value of the
\* first render is kept for good.
RenderMemoOnce(customCallbackUrl) ==
    /\ memoDeps' = customCallbackUrl
    /\ memoUrl' = IF memoDeps # NotRendered THEN memoUrl
                  ELSE CreateURL(IF customCallbackUrl = Undefined
                                 THEN DEFAULT_CALLBACK_URL
                                 ELSE customCallbackUrl)
    /\ UNCHANGED <<wix, returned, componentState>>

\* A render of the component with the prop customCallbackUrl: useMemo
\* computes callbackUrl in the first render and when customCallbackUrl
\* differs from the one of the render before, and hands back the value it
\* holds otherwise.
Render(customCallbackUrl) ==
    /\ memoDeps' = customCallbackUrl
    /\ memoUrl' = IF customCallbackUrl = memoDeps THEN memoUrl
                  ELSE CreateURL(IF customCallbackUrl = Undefined
                                 THEN DEFAULT_CALLBACK_URL
                                 ELSE customCallbackUrl)
    /\ UNCHANGED <<wix, returned, componentState>>

NextHelpers ==
    \/ CallIsOAuthClient
    \/ CallIsOAuthClient_part_001
    \/ \E u \in CustomCallbackUrls : Render(u)

SpecHelpers == InitHelpers /\ [][NextHelpers]_vars

\* ================================================================ claims
\* The modal of the mounted instance: Closed, Loading (the loader is shown)
\* or Rendering (the embedded browser is shown).
Phase ==
    IF ~isModalOpen THEN "Closed"
    ELSE IF authUrl = EmptyUrl THEN "Loading" ELSE "Rendering"

\* C1: a deep link delivered to a mounted instance while its modal is closed
\* does not lead to a call of onLoginComplete: every call of onLoginComplete
\* stems from a deep link that arrived while the modal was open.
C1_StaleCallbackGuard ==
    ev.op = "tokensResolved" => ev.deliveredOpen

\* C2: the deep links delivered during one session lead to at most one call
\* of onLoginComplete: no session's tokens are handed over twice.
C2_CompletesOncePerSession ==
    \A s \in 1..MaxSessions : completions[s] <= 1

\* C3: a getAuthUrl or getMemberTokens promise that settles after its
\* instance unmounted or its session closed changes neither authUrl nor
\* isModalOpen and calls no onLoginComplete.
C3_ContinuationsGuarded ==
    [][(ev'.op \in {"authUrlResolved", "tokensResolved"} /\ ev'.stale)
         => /\ authUrl' = authUrl
            /\ isModalOpen' = isModalOpen
            /\ completions' = completions]_vars

\* C4: a press on the cancel button calls onLoginCanceled at most once and
\* closes the modal, and for a session that was cancelled no getMemberTokens
\* call is made and no onLoginComplete call happens, before or after the press.
C4_CancelWithoutExchange ==
    /\ ev.op = "cancel" => (~isModalOpen /\ ev.canceled <= 1)
    /\ \A s \in cancelLog : s \notin exchangeLog /\ completions[s] = 0

\* C5: at most one instance is mounted and the global handle is present
\* exactly while it is, and is that instance's; a mount while the handle is
\* present throws TooManyComponentsError and changes neither the handle nor
\* the mounted instance; a mount while it is absent succeeds and registers
\* the new instance; an unmount removes the handle.
C5_SingletonMounting ==
    [][/\ Cardinality(isMounted') <= 1
       /\ (handle' = 0) <=> (isMounted' = {})
       /\ handle' # 0 => isMounted' = {handle'}
       /\ (ev'.op = "mount" /\ handle # 0)
             => /\ ev'.error = "TooManyComponentsError"
                /\ handle' = handle
                /\ isMounted' = isMounted
       /\ (ev'.op = "mount" /\ handle = 0)
             => /\ ev'.error = NoError
                /\ handle' = Len(listeners')
                /\ handle' \notin {handle} \cup {0}
       /\ ev'.op = "unmount" => handle' = 0]_vars

\* C5 witness: a second instance was mounted after the first one unmounted,
\* and a further mount has just been refused.
C5_Witness ==
    /\ ev.op = "mount"
    /\ ev.error = "TooManyComponentsError"
    /\ handle = 2
    /\ isMounted = {2}

\* C6: openLoginModal() throws ComponentNotMountedError and changes nothing
\* when no instance is mounted; when one is mounted it does not throw and
\* that instance's modal is open afterwards.
C6_OpenLoginModal ==
    [][ev'.op = "openLoginModal"
         => IF isMounted = {}
            THEN /\ ev'.error = "ComponentNotMountedError"
                 /\ UNCHANGED <<mountState, modalState, pendingTokens, logs>>
            ELSE /\ ev'.error = NoError
                 /\ isMounted' = isMounted
                 /\ isModalOpen']_vars

\* C6 witness: openLoginModal() has just thrown for an instance that was
\* mounted and has since unmounted.
C6_Witness ==
    /\ ev.op = "openLoginModal"
    /\ ev.error = "ComponentNotMountedError"
    /\ Len(listeners) > 0
    /\ isMounted = {}

\* C7: an HTTP 400 closes the modal and throws UnauthorizedCallbackUrl with
\* the callback URL that generateOAuthData was given for the session; any
\* other status leaves the modal open and throws nothing.
C7_ErrorNamesSessionUrl ==
    ev.op = "httpError"
      => IF ev.error = "UnauthorizedCallbackUrl"
         THEN /\ ~isModalOpen
              /\ oAuthData.id = session => ev.errUrl = oAuthData.url
         ELSE ev.error = NoError /\ isModalOpen

\* C8: no call of generateOAuthData, getAuthUrl, parseFromUrl or
\* getMemberTokens goes through a client that lacks one of the four
\* operations, and a step whose effect threw the capability error made none.
C8_CheckBeforeCalls ==
    /\ \A c \in ev.calls : Ops \subseteq c[2]
    /\ ev.effectError = "ClientIsNotOAuthClientError" => ev.calls = {}

\* C8 witness: the modal was opened with a client lacking an operation; the
\* effect threw the capability error.
C8_Witness ==
    /\ ev.op = "openLoginModal"
    /\ ev.effectError = "ClientIsNotOAuthClientError"
    /\ isModalOpen

\* C9: whenever the modal of the mounted instance is closed, authUrl is empty
\* and oAuthData holds nothing.
C9_ClosedSessionCleared ==
    (isMounted # {} /\ ~isModalOpen) => (authUrl = EmptyUrl /\ oAuthData = NoData)

\* C10: the modal of an instance moves only Closed -> Loading -> Rendering
\* -> Closed, and onLoginComplete, the cancellation and the HTTP-400 error
\* happen only in Rendering.
C10_StateMachine ==
    [][/\ (isMounted' = isMounted /\ Phase' # Phase)
             => <<Phase, Phase'>> \in {<<"Closed", "Loading">>,
                                       <<"Loading", "Rendering">>,
                                       <<"Rendering", "Closed">>}
       /\ (\/ completions' # completions
           \/ cancelLog' # cancelLog
           \/ ev'.error = "UnauthorizedCallbackUrl" /\ ev' # ev)
             => Phase = "Rendering"]_vars

\* C11: isOAuthClient returns true exactly for the clients that have all four
\* operations on client.auth, the object the component calls them on, false
\* when one is missing there, and a call changes neither the client nor any
\* other state.
C11_IsOAuthClientPure ==
    [][returned' # returned
         => /\ returned'.value = (Ops \subseteq wix.auth)
            /\ UNCHANGED <<wix, memoDeps, memoUrl, componentState>>]_vars

\* C12: after every render callbackUrl is the app's scheme combined with the
\* customCallbackUrl of that render when one is given and with the default
\* path otherwise, and a render with the customCallbackUrl of the render
\* before leaves callbackUrl as it was.
C12_CallbackUrlStable ==
    [][/\ memoDeps' # NotRendered
             => memoUrl' = <<AppScheme, IF memoDeps' = Undefined
                                        THEN "auth-callback" ELSE memoDeps'>>
       /\ memoDeps' = memoDeps => memoUrl' = memoUrl]_vars

\* C12 witness: a render with an override after a render without one has
\* replaced the callback URL of the default path.
C12_Witness ==
    /\ memoDeps = "custom-callback"
    /\ memoUrl = <<"myapp", "custom-callback">>

\* C13: a deep link delivered while the modal of the mounted instance is
\* open leads to a getMemberTokens call with the code and the state of that
\* URL and with the authorization data generated by the open of the session
\* that is active, the data getAuthUrl was given for it.
C13_ExchangeUsesSessionData ==
    [][(ev'.op = "deepLink" /\ live # 0 /\ isModalOpen)
         => \A q \in pendingTokens' \ pendingTokens :
               /\ q.code = ev'.url[3]
               /\ q.state = ev'.url[4]
               /\ q.data.id = session
               /\ q.data = oAuthData]_vars

\* C13 witness: in the second session of the only instance ever mounted a
\* deep link has started a token exchange with the data of that session.
C13_Witness ==
    /\ ev.op = "deepLink"
    /\ isModalOpen
    /\ session = 2
    /\ Len(listeners) = 1
    /\ \E q \in pendingTokens : q.data.id = 2 /\ q.inst = live

\* C14: whenever the modal opens and its effect runs through, the crypto
\* polyfill is in place when generateOAuthData is called and afterwards, and
\* no event removes the polyfill once it is installed.
C14_PolyfillInstalled ==
    [][/\ (\E c \in ev'.calls : c[1] = "generateOAuthData") /\ ev' # ev
             => ev'.cryptoAtGenerate = "expo-crypto"
       /\ (~isModalOpen /\ isModalOpen' /\ ev'.effectError = NoError)
             => /\ crypto' = "expo-crypto"
                /\ \E c \in ev'.calls : c[1] = "generateOAuthData"
       /\ crypto = "expo-crypto" => crypto' = "expo-crypto"]_vars

\* C14 witness: the instance that opened the modal has unmounted and the
\* polyfill is still in place.
C14_Witness ==
    /\ ev.op = "unmount"
    /\ session > 0
    /\ crypto = "expo-crypto"

\* C15: when getMemberTokens fails, onLoginComplete is not called and
\* isModalOpen, authUrl and oAuthData stay as they were; if the failed
\* exchange was of the session that is active, the modal is still open
\* afterwards and onLoginCallback still passes its guards with the data of
\* that session, so that a further deep link starts another exchange.
C15_FailedExchangeKeepsSession ==
    [][ev'.op = "tokensRejected" /\ pendingTokens' # pendingTokens
         => /\ ev'.completed = {}
            /\ completions' = completions
            /\ isModalOpen' = isModalOpen
            /\ authUrl' = authUrl
            /\ oAuthData' = oAuthData
            /\ \A q \in pendingTokens \ pendingTokens' :
                  ~Stale(q.inst, q.data)
                     => /\ isModalOpen'
                        /\ q.inst \in isMounted'
                        /\ IsOAuthClient(listeners'[q.inst])
                        /\ oAuthData' = q.data]_vars

\* C15 witness: the only exchange of the active session has just failed and
\* the embedded browser is still shown.
C15_Witness ==
    /\ ev.op = "tokensRejected"
    /\ WebviewRendered
    /\ oAuthData.id = session
    /\ session \in exchangeLog
    /\ completions[session] = 0
    /\ pendingTokens = {}

\* C16: whenever the embedded browser is rendered, the authUrl it shows is
\* what getAuthUrl resolves to for the authorization data held in oAuthData.
C16_AuthUrlOfCurrentSession ==
    WebviewRendered => authUrl = GetAuthUrl(oAuthData)

\* C17: for no session both onLoginCanceled and onLoginComplete are called:
\* a session in which onLoginCanceled was called never has its tokens handed
\* to onLoginComplete.
C17_OneCallbackPerSession ==
    \A s \in canceledLog : completions[s] = 0

\* C18: openLoginModal() while the modal of the mounted instance is open
\* throws nothing, leaves the modal open, calls neither generateOAuthData
\* nor getAuthUrl and changes neither authUrl nor oAuthData; the open
\* function of an instance that has unmounted changes nothing.
C18_OpenIdempotent ==
    [][/\ (ev'.op = "openLoginModal" /\ isMounted # {} /\ isModalOpen)
             => /\ ev'.error = NoError
                /\ ev'.calls = {}
                /\ isModalOpen'
                /\ UNCHANGED <<authUrl, oAuthData, pendingAuth, session, crypto>>
                /\ UNCHANGED <<mountState, pendingTokens, logs>>
       /\ ev'.op = "openModal"
             => /\ ev'.calls = {}
                /\ UNCHANGED <<mountState, modalState, pendingTokens, logs>>]_vars

\* C18 witness: openLoginModal() was called while the embedded browser of
\* the first session was shown, and the session is as it was.
C18_Witness ==
    /\ ev.op = "openLoginModal"
    /\ ev.calls = {}
    /\ IsOAuthClient(client)
    /\ WebviewRendered
    /\ session = 1
    /\ authUrl = GetAuthUrl(oAuthData)
====
